---- MODULE Spec2Model ----
(***************************************************************************)
(* A model of the CSV to fixed-width address converter (src/src/main.rs).  *)
(*                                                                         *)
(* A Rust &str is modelled as a sequence of characters.  A character is a  *)
(* token: a printable ASCII character stands for itself, every other       *)
(* character is named by its code point ("U+00E9").  len_utf8 gives the    *)
(* number of bytes of a character in UTF-8, so that the byte length        *)
(* (str::len) and the character count (chars().count()) of a string are    *)
(* different quantities, as they are in the program.                       *)
(***************************************************************************)
EXTENDS Integers, Sequences, FiniteSets, TLC

\* ------------------------------------------------------------- bounds
\* pad_right harness: longest input string and largest width
MaxLen == 3
MaxWidth == 4
\* parse_csv_line harness: longest input line
MaxLineLen == 8
\* whole program: number of input lines, number of positional arguments
MaxLines == 2
MaxArgs == 3

\* --------------------------------------------------------- characters
SPACE == " "
COMMA == ","
TAB == "U+0009"
E_ACUTE == "U+00E9"
EURO == "U+20AC"

\* char::len_utf8
len_utf8(c) ==
    CASE c = E_ACUTE -> 2
      [] c = EURO -> 3
      [] OTHER -> 1

\* char::is_whitespace, on the characters of the model
is_whitespace(c) == c \in {SPACE, TAB}

Rep(c, n) == [i \in 1..n |-> c]

\* str::len: the length in bytes
RECURSIVE str_len(_)
str_len(s) == IF s = <<>> THEN 0 ELSE len_utf8(Head(s)) + str_len(Tail(s))

\* str::is_char_boundary(index)
is_char_boundary(s, index) ==
    \E k \in 0..Len(s) : str_len(SubSeq(s, 1, k)) = index

\* the characters of s[..index], for index a character boundary of s
slice_to(s, index) ==
    LET k == CHOOSE k \in 0..Len(s) : str_len(SubSeq(s, 1, k)) = index
    IN  SubSeq(s, 1, k)

\* format!("{:<width$}", s): left-justified, padded by character count
format_left(s, width) ==
    IF Len(s) >= width THEN s ELSE s \o Rep(SPACE, width - Len(s))

\* the outcome of a call that may panic
Ok(v) == [ok |-> TRUE, val |-> v]
Panic == [ok |-> FALSE, val |-> <<>>]

\* fn pad_right(s: &str, width: usize) -> String
pad_right(s, width) ==
    IF str_len(s) >= width
    THEN IF is_char_boundary(s, width) THEN Ok(slice_to(s, width)) ELSE Panic
    ELSE Ok(format_left(s, width))

\* const FIELD_WIDTHS: [(usize, usize); 6]
FIELD_WIDTHS == << <<25, 5>>, <<15, 5>>, <<30, 5>>, <<15, 5>>, <<3, 5>>, <<10, 38>> >>

\* struct AddressRecord
AddressRecord(f) ==
    [last_name |-> f[1], first_name |-> f[2], street |-> f[3],
     city |-> f[4], state |-> f[5], zip |-> f[6]]

\* the array `fields` of format_fixed_width
record_fields(record) ==
    << record.last_name, record.first_name, record.street,
       record.city, record.state, record.zip >>

\* the loop of format_fixed_width over fields i..6, appended to line
RECURSIVE format_loop(_, _, _)
format_loop(fields, i, line) ==
    IF i > Len(FIELD_WIDTHS) \/ i > Len(fields) THEN Ok(line)
    ELSE LET content == pad_right(fields[i], FIELD_WIDTHS[i][1])
             filler == pad_right(<<>>, FIELD_WIDTHS[i][2])
         IN  IF ~content.ok \/ ~filler.ok THEN Panic
             ELSE format_loop(fields, i + 1, line \o content.val \o filler.val)

\* fn format_fixed_width(record: &AddressRecord) -> String
format_fixed_width(record) == format_loop(record_fields(record), 1, <<>>)

\* str::split(sep)
RECURSIVE split(_, _)
split(s, sep) ==
    IF \A i \in 1..Len(s) : s[i] # sep THEN <<s>>
    ELSE LET i == CHOOSE i \in 1..Len(s) :
                      s[i] = sep /\ \A j \in 1..(i - 1) : s[j] # sep
         IN  <<SubSeq(s, 1, i - 1)>> \o split(SubSeq(s, i + 1, Len(s)), sep)

\* str::trim_start, str::trim_end, str::trim
RECURSIVE trim_start(_)
trim_start(s) ==
    IF s # <<>> /\ is_whitespace(Head(s)) THEN trim_start(Tail(s)) ELSE s

RECURSIVE trim_end(_)
trim_end(s) ==
    IF s # <<>> /\ is_whitespace(s[Len(s)])
    THEN trim_end(SubSeq(s, 1, Len(s) - 1)) ELSE s

trim(s) == trim_end(trim_start(s))

\* Option<AddressRecord>
Some(r) == [some |-> TRUE, rec |-> r]
None == [some |-> FALSE, rec |-> AddressRecord(<< <<>>, <<>>, <<>>, <<>>, <<>>, <<>> >>)]

\* parse_csv_line with the field count tested by `< 6`
parse_csv_line_at_least_six(line) ==
    LET fields == split(line, COMMA)
    IN  IF Len(fields) < 6 THEN None
        ELSE Some(AddressRecord([i \in 1..6 |-> trim(fields[i])]))

\* fn parse_csv_line(line: &str) -> Option<AddressRecord>
parse_csv_line(line) ==
    LET fields == split(line, COMMA)
    IN  IF Len(fields) # 6 THEN None
        ELSE Some(AddressRecord([i \in 1..6 |-> trim(fields[i])]))

\* all strings over the alphabet A of length at most n
RECURSIVE Strings(_, _)
Strings(A, n) ==
    IF n = 0 THEN {<<>>}
    ELSE LET shorter == Strings(A, n - 1)
         IN  shorter \cup {Append(s, c) : s \in {t \in shorter : Len(t) = n - 1}, c \in A}

\* the lines of a slice of strings joined by sep (builds input lines)
RECURSIVE join(_, _)
join(parts, sep) ==
    IF parts = <<>> THEN <<>>
    ELSE IF Len(parts) = 1 THEN parts[1]
    ELSE parts[1] \o <<sep>> \o join(Tail(parts), sep)

\* ------------------------------------------------------------ state
VARIABLES
    \* pad_right harness
    pad_s, pad_w, pad_r1, pad_r2, pad_pc,
    \* parse_csv_line harness
    parse_in, parse_out, parse_pc,
    \* format_fixed_width harness
    fmt_line, fmt_rec, fmt_out, fmt_pc,
    \* the program: main and process_csv
    args,           \* env::args(): the program name, then the positional arguments
    input_path, output_path,
    input,          \* the lines reader.lines() yields when no read fails
    line_num,       \* the counter of enumerate(): lines taken from the reader
    record_count,
    buf,            \* lines held by the BufWriter, not yet in the file
    file,           \* lines of the output file
    stderr,         \* the diagnostic stream
    io_error,       \* the io::Error process_csv returns, "" when none
    exit_status,    \* -1 while the process runs
    pc

padVars == <<pad_s, pad_w, pad_r1, pad_r2, pad_pc>>
parseVars == <<parse_in, parse_out, parse_pc>>
fmtVars == <<fmt_line, fmt_rec, fmt_out, fmt_pc>>
progVars == <<args, input_path, output_path, input, line_num, record_count,
              buf, file, stderr, io_error, exit_status, pc>>
vars == <<padVars, parseVars, fmtVars, progVars>>

\* a harness that is not running
PadIdle ==
    pad_s = <<>> /\ pad_w = 0 /\ pad_r1 = Panic /\ pad_r2 = Panic /\ pad_pc = "idle"
ParseIdle ==
    parse_in = <<>> /\ parse_out = None /\ parse_pc = "idle"
FmtIdle ==
    fmt_line = <<>> /\ fmt_rec = None /\ fmt_out = Panic /\ fmt_pc = "idle"
ProgIdle ==
    /\ args = <<>> /\ input_path = "" /\ output_path = "" /\ input = <<>>
    /\ line_num = 0 /\ record_count = 0 /\ buf = <<>> /\ file = <<>>
    /\ stderr = <<>> /\ io_error = "" /\ exit_status = -1 /\ pc = "idle"

\* ------------------------------------------------- pad_right harness
PadChars == {"a", SPACE, E_ACUTE, EURO}

InitPad ==
    /\ pad_s \in Strings(PadChars, MaxLen)
    /\ pad_w \in 0..MaxWidth
    /\ pad_r1 = Panic
    /\ pad_r2 = Panic
    /\ pad_pc = "start"
    /\ ParseIdle /\ FmtIdle /\ ProgIdle

\* pad_right(s, w)
PadOnce ==
    /\ pad_pc = "start"
    /\ pad_r1' = pad_right(pad_s, pad_w)
    /\ pad_pc' = IF pad_r1'.ok THEN "once" ELSE "panicked"
    /\ UNCHANGED <<pad_s, pad_w, pad_r2, parseVars, fmtVars, progVars>>

\* pad_right(pad_right(s, w), w)
PadTwice ==
    /\ pad_pc = "once"
    /\ pad_r2' = pad_right(pad_r1.val, pad_w)
    /\ pad_pc' = IF pad_r2'.ok THEN "twice" ELSE "panicked"
    /\ UNCHANGED <<pad_s, pad_w, pad_r1, parseVars, fmtVars, progVars>>

NextPad == PadOnce \/ PadTwice

SpecPad == InitPad /\ [][NextPad]_vars

\* -------------------------------------------- parse_csv_line harness
ParseChars == {"a", COMMA, SPACE}

InitParse ==
    /\ parse_in \in Strings(ParseChars, MaxLineLen)
    /\ parse_out = None
    /\ parse_pc = "start"
    /\ PadIdle /\ FmtIdle /\ ProgIdle

\* parse_csv_line(line)
ParseLine ==
    /\ parse_pc = "start"
    /\ parse_out' = parse_csv_line(parse_in)
    /\ parse_pc' = "done"
    /\ UNCHANGED <<parse_in, padVars, fmtVars, progVars>>

NextParse == ParseLine

SpecParse == InitParse /\ [][NextParse]_vars

\* ---------------------------------------- format_fixed_width harness
\* field values for a content width w: blank-padded short text, empty, of
\* exactly w characters, longer than w, with a two-byte character inside the
\* first w bytes, and with a two-byte character across byte w
FieldSamples(w) ==
    { <<SPACE, "x", SPACE>>,
      <<>>,
      Rep("c", w),
      Rep("b", w + 5),
      <<E_ACUTE>> \o Rep("a", w - 2),
      Rep("a", w - 1) \o <<E_ACUTE>> }

W(i) == FIELD_WIDTHS[i][1]

FmtRecords ==
    { <<f1, f2, f3, f4, f5, f6>> :
        f1 \in FieldSamples(W(1)), f2 \in FieldSamples(W(2)),
        f3 \in FieldSamples(W(3)), f4 \in FieldSamples(W(4)),
        f5 \in FieldSamples(W(5)), f6 \in FieldSamples(W(6)) }

\* six-field lines, and the five-field lines that lack the zip
FmtLines ==
    {join(f, COMMA) : f \in FmtRecords}
        \cup {join(SubSeq(f, 1, 5), COMMA) : f \in FmtRecords}

InitFmt ==
    /\ fmt_line \in FmtLines
    /\ fmt_rec = None
    /\ fmt_out = Panic
    /\ fmt_pc = "start"
    /\ PadIdle /\ ParseIdle /\ ProgIdle

\* parse_csv_line(line), as process_csv calls it
FmtParse ==
    /\ fmt_pc = "start"
    /\ fmt_rec' = parse_csv_line(fmt_line)
    /\ fmt_pc' = IF fmt_rec'.some THEN "parsed" ELSE "rejected"
    /\ UNCHANGED <<fmt_line, fmt_out, padVars, parseVars, progVars>>

\* format_fixed_width(&record)
FmtFormat ==
    /\ fmt_pc = "parsed"
    /\ fmt_out' = format_fixed_width(fmt_rec.rec)
    /\ fmt_pc' = IF fmt_out'.ok THEN "formatted" ELSE "panicked"
    /\ UNCHANGED <<fmt_line, fmt_rec, padVars, parseVars, progVars>>

NextFmt == FmtParse \/ FmtFormat

SpecFormat == InitFmt /\ [][NextFmt]_vars

\* ------------------------------------------------------ the program
\* const DEFAULT_INPUT, DEFAULT_OUTPUT
DEFAULT_INPUT == "/nfs_dir/input/info.csv"
DEFAULT_OUTPUT == "/nfs_dir/output/output.txt"

\* a line of the diagnostic stream
Diag(kind, num, text) == [kind |-> kind, num |-> num, text |-> text]

\* the selection with the test `args.len() == 3`
select_paths_exactly_two(a) ==
    IF Len(a) = 3 THEN <<a[2], a[3]>> ELSE <<DEFAULT_INPUT, DEFAULT_OUTPUT>>

\* the paths main selects: `if args.len() > 2 { (args[1], args[2]) } else defaults`
\* (Rust indexes from 0, args[0] is the program name)
select_paths(a) ==
    IF Len(a) > 2 THEN <<a[2], a[3]>> ELSE <<DEFAULT_INPUT, DEFAULT_OUTPUT>>

\* the blank test without the trim: `line.is_empty()`
is_blank_line_no_trim(line) == line = <<>>

\* `line.trim().is_empty()`
is_blank_line(line) == trim(line) = <<>>

\* the warning citing the 0-based index of enumerate()
warning_line_zero_based(n) == n

\* `line_num + 1`, the number the warning cites
warning_line(n) == n + 1

\* what a failed or abandoned BufWriter leaves in the file: flush_buf writes
\* the buffered lines in order and stops at the first failing write; Drop
\* tries once more and ignores the error
FlushedPrefixes == {SubSeq(buf, 1, j) : j \in 0..Len(buf)}

\* the input lines of the model
SmithLine == join(<< <<"S","m","i","t","h">>, <<"J","o","h","n">>,
                     <<"1",SPACE,"M","a","i","n">>, <<SPACE,"S","p","r">>,
                     <<"I","L">>, <<"6","2","7","0","1">> >>, COMMA)
JonesLine == join(<< <<"J","o","n","e","s">>, <<>>, <<>>, <<>>,
                     <<"O","h","i","o">>, <<>> >>, COMMA)
FourFieldLine == join(<< <<"O","n","l","y">>, <<"A">>, <<"B">>, <<"C">> >>, COMMA)
QuebecLine == join(<< <<"R","o","y">>, <<>>, <<>>, <<>>,
                      <<"Q","u",E_ACUTE,"b","e","c">>, <<>> >>, COMMA)
LineSet == {<<>>, <<SPACE, TAB>>, SmithLine, JonesLine, FourFieldLine, QuebecLine}

Paths == {"a.csv", "b.txt"}
StaleLine == <<"o","l","d">>

Init ==
    /\ args \in {<<"csv2fixed">> \o p : p \in Strings(Paths, MaxArgs)}
    /\ input \in Strings(LineSet, MaxLines)
    /\ file \in {<<>>, <<StaleLine>>}
    /\ input_path = "" /\ output_path = ""
    /\ line_num = 0 /\ record_count = 0 /\ buf = <<>>
    /\ stderr = <<>> /\ io_error = "" /\ exit_status = -1
    /\ pc = "main"
    /\ PadIdle /\ ParseIdle /\ FmtIdle

harnessVars == <<padVars, parseVars, fmtVars>>

\* main, up to the call of process_csv
MainSelectPaths ==
    /\ pc = "main"
    /\ input_path' = select_paths(args)[1]
    /\ output_path' = select_paths(args)[2]
    /\ stderr' = stderr \o << Diag("Reading from", 0, input_path'),
                              Diag("Writing to", 0, output_path') >>
    /\ pc' = "open_input"
    /\ UNCHANGED <<args, input, line_num, record_count, buf, file, io_error,
                   exit_status, harnessVars>>

\* File::open(input_path)?
OpenInputOk ==
    /\ pc = "open_input"
    /\ pc' = "create_output"
    /\ UNCHANGED <<args, input_path, output_path, input, line_num, record_count,
                   buf, file, stderr, io_error, exit_status, harnessVars>>

OpenInputErr ==
    /\ pc = "open_input"
    /\ io_error' = "open input"
    /\ pc' = "returned_err"
    /\ UNCHANGED <<args, input_path, output_path, input, line_num, record_count,
                   buf, file, stderr, exit_status, harnessVars>>

\* File::create(output_path)?; BufWriter::new; record_count = 0
CreateOutputOk ==
    /\ pc = "create_output"
    /\ file' = <<>>
    /\ buf' = <<>>
    /\ record_count' = 0
    /\ line_num' = 0
    /\ pc' = "loop"
    /\ UNCHANGED <<args, input_path, output_path, input, stderr, io_error,
                   exit_status, harnessVars>>

CreateOutputErr ==
    /\ pc = "create_output"
    /\ io_error' = "create output"
    /\ pc' = "returned_err"
    /\ UNCHANGED <<args, input_path, output_path, input, line_num, record_count,
                   buf, file, stderr, exit_status, harnessVars>>

\* `let line = line_result?` with line_result an Err: the writer is dropped
ReadErr ==
    /\ pc = "loop"
    /\ \E w \in FlushedPrefixes : file' = file \o w
    /\ buf' = <<>>
    /\ io_error' = "read"
    /\ pc' = "returned_err"
    /\ UNCHANGED <<args, input_path, output_path, input, line_num, record_count,
                   stderr, exit_status, harnessVars>>

\* `if line.trim().is_empty() { continue; }`
SkipBlank ==
    /\ pc = "loop"
    /\ line_num < Len(input)
    /\ is_blank_line(input[line_num + 1])
    /\ line_num' = line_num + 1
    /\ UNCHANGED <<args, input_path, output_path, input, record_count, buf, file,
                   stderr, io_error, exit_status, pc, harnessVars>>

\* the Some(record) arm without `record_count += 1`
WriteBuffered_uncounted ==
    /\ pc = "loop"
    /\ line_num < Len(input)
    /\ LET line == input[line_num + 1]
           parsed == parse_csv_line(line)
           out == format_fixed_width(parsed.rec)
       IN  /\ ~is_blank_line(line)
           /\ parsed.some
           /\ out.ok
           /\ buf' = Append(buf, out.val)
    /\ line_num' = line_num + 1
    /\ UNCHANGED <<args, input_path, output_path, input, record_count, file, stderr,
                   io_error, exit_status, pc, harnessVars>>

\* the Some(record) arm, the BufWriter having room for the line:
\* writeln! keeps it in the buffer; record_count += 1
WriteBuffered ==
    /\ pc = "loop"
    /\ line_num < Len(input)
    /\ LET line == input[line_num + 1]
           parsed == parse_csv_line(line)
           out == format_fixed_width(parsed.rec)
       IN  /\ ~is_blank_line(line)
           /\ parsed.some
           /\ out.ok
           /\ buf' = Append(buf, out.val)
    /\ record_count' = record_count + 1
    /\ line_num' = line_num + 1
    /\ UNCHANGED <<args, input_path, output_path, input, file, stderr, io_error,
                   exit_status, pc, harnessVars>>

\* the Some(record) arm, the BufWriter being full: writeln! first moves the
\* buffered lines to the file, then keeps the line; record_count += 1
WriteThrough ==
    /\ pc = "loop"
    /\ line_num < Len(input)
    /\ buf # <<>>
    /\ LET line == input[line_num + 1]
           parsed == parse_csv_line(line)
           out == format_fixed_width(parsed.rec)
       IN  /\ ~is_blank_line(line)
           /\ parsed.some
           /\ out.ok
           /\ file' = file \o buf
           /\ buf' = <<out.val>>
    /\ record_count' = record_count + 1
    /\ line_num' = line_num + 1
    /\ UNCHANGED <<args, input_path, output_path, input, stderr, io_error,
                   exit_status, pc, harnessVars>>

\* the Some(record) arm when writeln! fails: the BufWriter fails moving what
\* it holds to the file, `?` returns the error and the writer is dropped
WriteErr ==
    /\ pc = "loop"
    /\ line_num < Len(input)
    /\ LET line == input[line_num + 1]
           parsed == parse_csv_line(line)
       IN  /\ ~is_blank_line(line)
           /\ parsed.some
           /\ format_fixed_width(parsed.rec).ok
    /\ buf # <<>>
    /\ \E w \in FlushedPrefixes : file' = file \o w
    /\ buf' = <<>>
    /\ line_num' = line_num + 1
    /\ io_error' = "write"
    /\ pc' = "returned_err"
    /\ UNCHANGED <<args, input_path, output_path, input, record_count, stderr,
                   exit_status, harnessVars>>

\* the Some(record) arm when format_fixed_width panics in pad_right: the
\* stack unwinds, the writer is dropped, the process ends with status 101
FormatPanic ==
    /\ pc = "loop"
    /\ line_num < Len(input)
    /\ LET line == input[line_num + 1]
           parsed == parse_csv_line(line)
       IN  /\ ~is_blank_line(line)
           /\ parsed.some
           /\ ~format_fixed_width(parsed.rec).ok
    /\ \E w \in FlushedPrefixes : file' = file \o w
    /\ buf' = <<>>
    /\ line_num' = line_num + 1
    /\ stderr' = Append(stderr, Diag("panicked", 0, "byte index is not a char boundary"))
    /\ exit_status' = 101
    /\ pc' = "exited"
    /\ UNCHANGED <<args, input_path, output_path, input, record_count, io_error,
                   harnessVars>>

\* the None arm: eprintln! of the warning
WarnMalformed ==
    /\ pc = "loop"
    /\ line_num < Len(input)
    /\ ~is_blank_line(input[line_num + 1])
    /\ ~parse_csv_line(input[line_num + 1]).some
    /\ stderr' = Append(stderr, Diag("Warning", warning_line(line_num),
                                     "unexpected number of fields, skipping"))
    /\ line_num' = line_num + 1
    /\ UNCHANGED <<args, input_path, output_path, input, record_count, buf, file,
                   io_error, exit_status, pc, harnessVars>>

\* writer.flush()?; eprintln!("Successfully processed ..."); Ok(())
FlushOk ==
    /\ pc = "loop"
    /\ line_num = Len(input)
    /\ file' = file \o buf
    /\ buf' = <<>>
    /\ stderr' = Append(stderr, Diag("Successfully processed", record_count, "records"))
    /\ pc' = "returned_ok"
    /\ UNCHANGED <<args, input_path, output_path, input, line_num, record_count,
                   io_error, exit_status, harnessVars>>

\* writer.flush()? failing: only a write of buffered lines can fail
FlushErr ==
    /\ pc = "loop"
    /\ line_num = Len(input)
    /\ buf # <<>>
    /\ \E w \in FlushedPrefixes : file' = file \o w
    /\ buf' = <<>>
    /\ io_error' = "flush"
    /\ pc' = "returned_err"
    /\ UNCHANGED <<args, input_path, output_path, input, line_num, record_count,
                   stderr, exit_status, harnessVars>>

\* main after Ok(()): eprintln!("Processing complete"), status 0
MainComplete ==
    /\ pc = "returned_ok"
    /\ stderr' = Append(stderr, Diag("Processing complete", 0, ""))
    /\ exit_status' = 0
    /\ pc' = "exited"
    /\ UNCHANGED <<args, input_path, output_path, input, line_num, record_count,
                   buf, file, io_error, harnessVars>>

\* main after Err(e): eprintln!("Error: {}", e); process::exit(1)
MainError ==
    /\ pc = "returned_err"
    /\ stderr' = Append(stderr, Diag("Error", 0, io_error))
    /\ exit_status' = 1
    /\ pc' = "exited"
    /\ UNCHANGED <<args, input_path, output_path, input, line_num, record_count,
                   buf, file, io_error, harnessVars>>

Next ==
    \/ MainSelectPaths
    \/ OpenInputOk \/ OpenInputErr
    \/ CreateOutputOk \/ CreateOutputErr
    \/ ReadErr \/ SkipBlank \/ WriteBuffered \/ WriteThrough \/ WriteErr
    \/ FormatPanic \/ WarnMalformed
    \/ FlushOk \/ FlushErr
    \/ MainComplete \/ MainError

Spec == Init /\ [][Next]_vars

\* ----------------------------------------------------------- claims
\* what the claims say, stated without the operators of the model
CommaCount(line) == Cardinality({i \in 1..Len(line) : line[i] = COMMA})
AllWhitespace(line) == \A i \in 1..Len(line) : line[i] \in {SPACE, TAB}
\* a non-blank line whose number of comma-separated parts is not 6
Malformed(line) == ~AllWhitespace(line) /\ CommaCount(line) # 5

\* the position of the k-th comma of line; 0 for k = 0, Len + 1 past the last
CommaAt(line, k) ==
    IF k = 0 THEN 0
    ELSE IF k > CommaCount(line) THEN Len(line) + 1
    ELSE CHOOSE i \in 1..Len(line) :
            /\ line[i] = COMMA
            /\ Cardinality({j \in 1..(i - 1) : line[j] = COMMA}) = k - 1
\* the k-th comma-separated part of line
Part(line, k) == SubSeq(line, CommaAt(line, k - 1) + 1, CommaAt(line, k) - 1)
\* t is p without its leading and trailing whitespace
IsTrimOf(t, p) ==
    \E i \in 1..(Len(p) + 1), j \in 0..Len(p) :
        /\ t = SubSeq(p, i, j)
        /\ \A k \in 1..(i - 1) : p[k] \in {SPACE, TAB}
        /\ \A k \in (j + 1)..Len(p) : p[k] \in {SPACE, TAB}
        /\ t = <<>> \/ (t[1] \notin {SPACE, TAB} /\ t[Len(t)] \notin {SPACE, TAB})
\* text left-justified in w characters: cut to w, or followed by spaces
Justified(text, w) ==
    IF Len(text) >= w THEN SubSeq(text, 1, w)
    ELSE text \o [i \in 1..(w - Len(text)) |-> SPACE]

\* C1: every line the converter emits for a six-part input line is exactly
\* 161 characters long, whatever the content and length of the parts.
C1_LineLength161 ==
    fmt_pc \in {"formatted", "panicked"} =>
        (fmt_out.ok /\ Len(fmt_out.val) = 25+5+15+5+30+5+15+5+3+5+10+38)

\* C2: pad_right has no error outcome and returns exactly `width` characters:
\* the first `width` characters of the text when the text has at least `width`
\* characters, the text followed by spaces up to `width` otherwise.
C2_PadExactWidth ==
    pad_pc \in {"once", "twice", "panicked"} =>
        /\ pad_r1.ok
        /\ Len(pad_r1.val) = pad_w
        /\ pad_r1.val = Justified(pad_s, pad_w)

\* C3: parse_csv_line returns none exactly when the number of comma-separated
\* parts is not 6, and otherwise the record of the six parts in order, each
\* without its leading and trailing whitespace; empty parts give empty strings.
C3_ParseSplitsAndTrims ==
    parse_pc = "done" =>
        /\ parse_out.some <=> (CommaCount(parse_in) + 1 = 6)
        /\ parse_out.some =>
            /\ IsTrimOf(parse_out.rec.last_name, Part(parse_in, 1))
            /\ IsTrimOf(parse_out.rec.first_name, Part(parse_in, 2))
            /\ IsTrimOf(parse_out.rec.street, Part(parse_in, 3))
            /\ IsTrimOf(parse_out.rec.city, Part(parse_in, 4))
            /\ IsTrimOf(parse_out.rec.state, Part(parse_in, 5))
            /\ IsTrimOf(parse_out.rec.zip, Part(parse_in, 6))
            /\ \A k \in 1..6 : Part(parse_in, k) = <<>> =>
                    record_fields(parse_out.rec)[k] = <<>>

\* a six-part line with blanks around a field and empty fields was parsed
C3_Witness ==
    /\ parse_pc = "done"
    /\ parse_out.some
    /\ parse_in = <<SPACE, "a", SPACE, COMMA, COMMA, COMMA, COMMA, COMMA>>
    /\ parse_out.rec.last_name = <<"a">>
    /\ parse_out.rec.zip = <<>>

\* C8: padding twice to the same width gives what padding once gives.
C8_PadIdempotent ==
    pad_pc = "twice" => pad_r2 = pad_r1

\* C9: the six fields stand at character offsets 0, 30, 50, 85, 105, 113, each
\* left-justified in its content width and cut to it when longer; every other
\* position of the 161 is a space; the line holds no newline.
C9_FieldLayout ==
    fmt_pc \in {"formatted", "panicked"} =>
        /\ fmt_out.ok
        /\ LET out == fmt_out.val
               f == record_fields(fmt_rec.rec)
               off == <<0, 30, 50, 85, 105, 113>>
               w == <<25, 15, 30, 15, 3, 10>>
               fill == <<5, 5, 5, 5, 5, 38>>
           IN  /\ Len(out) = 161
               /\ \A i \in 1..6 :
                    /\ SubSeq(out, off[i] + 1, off[i] + w[i]) = Justified(f[i], w[i])
                    /\ \A k \in (off[i] + w[i] + 1)..(off[i] + w[i] + fill[i]) :
                            out[k] = SPACE
               /\ \A k \in 1..Len(out) : out[k] # "\n"

\* the positional arguments: env::args() without the program name
Positional == Tail(args)

\* C7 as stated: exactly two positional arguments give the two paths, any
\* other number gives both defaults.
C7_ExactlyTwoArguments ==
    pc \notin {"idle", "main"} =>
        IF Len(Positional) = 2
        THEN input_path = Positional[1] /\ output_path = Positional[2]
        ELSE input_path = DEFAULT_INPUT /\ output_path = DEFAULT_OUTPUT

\* C7 amended: two or more positional arguments give the first as the input
\* path and the second as the output path (the others are ignored); zero or
\* one gives both defaults, and then no supplied argument is a path.
C7_TwoOrMoreArguments ==
    pc \notin {"idle", "main"} =>
        IF Len(Positional) >= 2
        THEN input_path = Positional[1] /\ output_path = Positional[2]
        ELSE /\ input_path = DEFAULT_INPUT /\ output_path = DEFAULT_OUTPUT
             /\ \A i \in 1..Len(Positional) :
                    Positional[i] \notin {input_path, output_path}

\* three arguments were given and the first two were taken as the paths
C7_Witness ==
    /\ pc = "exited"
    /\ Len(Positional) = 3
    /\ Positional[1] # Positional[2]
    /\ input_path = Positional[1]
    /\ output_path = Positional[2]

\* the step of the loop that takes line number line_num + 1 from the reader
TakesLine == pc = "loop" /\ line_num < Len(input) /\ line_num' = line_num + 1

\* C4: a non-blank line whose number of parts is not 6 writes no output line,
\* leaves record_count unchanged, emits exactly one warning that cites the
\* line's 1-based position among all input lines, and the loop goes on.
C4_MalformedLineWarns ==
    [][ (TakesLine /\ Malformed(input[line_num + 1])) =>
            /\ UNCHANGED <<buf, file, record_count, io_error, exit_status>>
            /\ Len(stderr') = Len(stderr) + 1
            /\ SubSeq(stderr', 1, Len(stderr)) = stderr
            /\ stderr'[Len(stderr')].kind = "Warning"
            /\ stderr'[Len(stderr')].num = line_num + 1
            /\ pc' = "loop" ]_vars

\* a malformed second line, after a blank first line, was warned about as
\* line 2, and nothing was written or counted
C4_Witness ==
    /\ pc = "loop"
    /\ line_num = 2
    /\ AllWhitespace(input[1])
    /\ Malformed(input[2])
    /\ stderr[Len(stderr)].kind = "Warning"
    /\ stderr[Len(stderr)].num = 2
    /\ record_count = 0
    /\ buf = <<>> /\ file = <<>>

\* C5: a line that is empty after trimming whitespace is skipped silently:
\* nothing is written, record_count is unchanged, no warning is emitted.
C5_BlankLineSilent ==
    [][ (TakesLine /\ AllWhitespace(input[line_num + 1])) =>
            /\ UNCHANGED <<buf, file, record_count, stderr, io_error, exit_status>>
            /\ pc' = "loop" ]_vars

\* a record, then a whitespace-only last line, were taken: one record is
\* counted and only the two path announcements are on the diagnostic stream
C5_Witness ==
    /\ pc = "loop"
    /\ line_num = 2
    /\ ~AllWhitespace(input[1])
    /\ input[2] # <<>> /\ AllWhitespace(input[2])
    /\ record_count = 1
    /\ Len(buf) + Len(file) = 1
    /\ Len(stderr) = 2

\* the formatted forms, in input order, of the first n input lines that are
\* non-blank and have exactly 6 comma-separated parts
RECURSIVE ExpectedOutput(_)
ExpectedOutput(n) ==
    IF n = 0 THEN <<>>
    ELSE LET line == input[n]
         IN  IF ~AllWhitespace(line) /\ CommaCount(line) = 5
             THEN Append(ExpectedOutput(n - 1),
                         format_fixed_width(parse_csv_line(line).rec).val)
             ELSE ExpectedOutput(n - 1)

\* the counts the diagnostic stream reports
ReportedCounts ==
    {stderr[i].num : i \in {j \in 1..Len(stderr) : stderr[j].kind = "Successfully processed"}}

IsPrefix(s, t) == Len(s) <= Len(t) /\ s = SubSeq(t, 1, Len(s))

\* C10: while the conversion runs, record_count is the number of lines
\* written so far, and these are, in input order, the formatted forms of the
\* lines read so far that are non-blank and have 6 parts; a run completed
\* without I/O error reports the number of lines of the output file; an empty
\* input gives an empty output file and a reported count of 0.
C10_CountMatchesOutput ==
    /\ pc = "loop" =>
        /\ record_count = Len(file \o buf)
        /\ file \o buf = ExpectedOutput(line_num)
    /\ (pc = "returned_ok" \/ (pc = "exited" /\ exit_status = 0)) =>
        /\ file = ExpectedOutput(Len(input))
        /\ ReportedCounts = {Len(file)}
        /\ input = <<>> => (file = <<>> /\ ReportedCounts = {0})

\* two different records were converted: the file holds their formatted
\* forms in input order and 2 was reported
C10_Witness ==
    /\ pc = "exited" /\ exit_status = 0
    /\ Len(input) = 2
    /\ Len(file) = 2
    /\ file[1] # file[2]
    /\ file[1] = format_fixed_width(parse_csv_line(input[1]).rec).val
    /\ ReportedCounts = {2}

\* C6: an I/O error aborts the conversion at once: no later line is read or
\* written, no success summary and no completion marker is emitted, the error
\* is written to the diagnostic stream and the exit status is non-zero; with
\* no I/O error the exit status is zero, whatever the malformed lines.
C6_OnlyIoErrorsAreFatal ==
    /\ io_error # "" =>
        /\ pc \in {"returned_err", "exited"}
        /\ \A i \in 1..Len(stderr) :
                stderr[i].kind \notin {"Successfully processed", "Processing complete"}
        /\ io_error \notin {"open input", "create output"} =>
                IsPrefix(file, ExpectedOutput(line_num))
    /\ (pc = "exited" /\ io_error # "") =>
        /\ exit_status # 0
        /\ stderr[Len(stderr)] = Diag("Error", 0, io_error)
    /\ (pc = "exited" /\ io_error = "") => exit_status = 0

====
